---- MODULE Spec2Model ----
(***************************************************************************)
(* A model of the reactive runtime of leptos_reactive: the scope arena    *)
(* (runtime.rs, scope.rs), the per-scope entity arenas, the handle        *)
(* lookups and the dependency-tracking stack.                             *)
(*                                                                         *)
(* Operations that take a closure (create_scope, child_scope, untrack)    *)
(* are split where the closure runs: a Call action does what the code     *)
(* does before f, pushes a frame on `calls`, and a Return action does     *)
(* what the code does after f.  A panic sets `panicking`; while it is     *)
(* set, frames are only unwound (their code after f does not run) until   *)
(* a caller catches the panic.                                            *)
(***************************************************************************)
EXTENDS Integers, Sequences, FiniteSets, TLC

\* ------------------------------------------------------------- bounds
MaxScopes == 2      \* slots the scope arena may grow to through the Scope API
MaxSlots == 1       \* slots the scope arena may grow to in direct Runtime calls
MaxRemoves == 1     \* removals from the scope arena over a run
MaxEnt == 1         \* entities (signals + memos + effects) over all scopes
MaxPush == 2        \* the same, where the arenas themselves are examined
MaxDepth == 2       \* closures (f) in progress at once
MaxDisposers == 1   \* ScopeDisposers a caller holds at once
MaxStack == 2       \* subscribers on the tracking stack at once

Types == {"i32", "String"}          \* the value types T of entity states
Kinds == {"signal", "memo", "effect"}

VARIABLES
    scopes,     \* Runtime.scopes: SlotMap<ScopeId, ScopeState>
    stack,      \* Runtime.stack: Vec<Subscriber>
    calls,      \* the closures in progress, outermost first
    panicking,  \* a panic is propagating through `calls`
    disposers,  \* the ScopeDisposers returned and not yet invoked
    last,       \* the last call: its arguments and how it ended
    pending,    \* history: the pushes not yet popped, each with the stack before it
    other       \* the scopes of a second Runtime (each root create_scope leaks its own)

vars == <<scopes, stack, calls, panicking, disposers, last, pending, other>>

\* ------------------------------------------------------------ SlotMap
\* slotmap::SlotMap: a vector of versioned slots and a free list.  A key is
\* (idx, version); a slot's version is odd exactly while it is occupied.
Vacant == [vacant |-> TRUE]

EmptySlotMap == [slots |-> <<>>, free_head |-> 1]

contains_key(sm, k) ==
    /\ k.idx \in 1..Len(sm.slots)
    /\ sm.slots[k.idx].version = k.ver

get(sm, k) == sm.slots[k.idx].value

\* The key the next insert returns: the head of the free list with its
\* version made odd, or else a new slot with version 1.
next_key(sm) ==
    IF sm.free_head \in 1..Len(sm.slots)
    THEN [idx |-> sm.free_head, ver |-> sm.slots[sm.free_head].version + 1]
    ELSE [idx |-> Len(sm.slots) + 1, ver |-> 1]

\* An insert that reuses a freed slot under the version of the key it
\* held before: slots without generations.
insert_same_version(sm, v) ==
    IF sm.free_head \in 1..Len(sm.slots)
    THEN [slots |-> [sm.slots EXCEPT ![sm.free_head] =
                        [version |-> @.version - 1, value |-> v, next_free |-> 0]],
          free_head |-> sm.slots[sm.free_head].next_free]
    ELSE [slots |-> Append(sm.slots, [version |-> 1, value |-> v, next_free |-> 0]),
          free_head |-> Len(sm.slots) + 2]

insert(sm, v) ==
    IF sm.free_head \in 1..Len(sm.slots)
    THEN [slots |-> [sm.slots EXCEPT ![sm.free_head] =
                        [version |-> @.version + 1, value |-> v, next_free |-> 0]],
          free_head |-> sm.slots[sm.free_head].next_free]
    ELSE [slots |-> Append(sm.slots, [version |-> 1, value |-> v, next_free |-> 0]),
          free_head |-> Len(sm.slots) + 2]

remove(sm, k) ==
    IF contains_key(sm, k)
    THEN [slots |-> [sm.slots EXCEPT ![k.idx] =
                        [version |-> @.version + 1, value |-> Vacant,
                         next_free |-> sm.free_head]],
          free_head |-> k.idx]
    ELSE sm

\* The keys of the entries of sm, and every key sm has ever returned.
keys(sm) ==
    {[idx |-> i, ver |-> sm.slots[i].version] : i \in {j \in 1..Len(sm.slots) : sm.slots[j].version % 2 = 1}}

issued(sm) ==
    UNION {{[idx |-> i, ver |-> v] : v \in {w \in 1..sm.slots[i].version : w % 2 = 1}} : i \in 1..Len(sm.slots)}

\* --------------------------------------------------------- ScopeState
NoScope == [idx |-> 0, ver |-> 0]       \* Option<Scope>::None
NoEntity == [idx |-> 0, ver |-> 0]      \* no entity id in a call or message

ScopeState_new(parent) ==
    [parent |-> parent, contexts |-> {}, children |-> <<>>,
     signals |-> EmptySlotMap, memos |-> EmptySlotMap, effects |-> EmptySlotMap]

\* The arena of a scope that holds the entities of a kind.
arena(sc, kind) ==
    CASE kind = "signal" -> sc.signals
      [] kind = "memo" -> sc.memos
      [] kind = "effect" -> sc.effects

\* Box<dyn AnySignal> / AnyMemo / AnyEffect: the state, its value type erased
\* and recoverable by downcast only.
EntityState(T) == [type |-> T]

\* Subscriber: the effect or memo a tracked computation runs for.
Subscriber(kind, sid, eid) == [kind |-> kind, scope |-> sid, entity |-> eid]

NoSubscriber == Subscriber("none", NoScope, NoEntity)   \* Option<Subscriber>::None

\* ------------------------------------------------- results and panics
\* The panic messages: "couldn't locate {id:?}" with id a ScopeId or a
\* (ScopeId, entity id) pair, and "couldn't convert {id:?} to
\* SignalState<{T}>" with T the type the caller asked for.
NoMsg == [text |-> "-", scope |-> NoScope, entity |-> NoEntity, state |-> "-", type |-> "-"]

LocateScopeMsg(sid) == [NoMsg EXCEPT !.text = "couldn't locate", !.scope = sid]

LocateEntityMsg(sid, eid) ==
    [NoMsg EXCEPT !.text = "couldn't locate", !.scope = sid, !.entity = eid]

ConvertMsg(sid, eid, st, T) ==
    [text |-> "couldn't convert", scope |-> sid, entity |-> eid, state |-> st, type |-> T]

BorrowMutMsg == [NoMsg EXCEPT !.text = "already borrowed: BorrowMutError"]

\* How a call ends: it ran the caller's closure and returned, or it panicked
\* with a message before running it.
Returned == [outcome |-> "ok", ran |-> TRUE, msg |-> NoMsg]

Panicked(m) == [outcome |-> "panic", ran |-> FALSE, msg |-> m]

\* ------------------------------------------------------------ lookups
\* Runtime::scope(id, f), for a closure f that itself succeeds.
scope(sid) ==
    IF contains_key(scopes, sid) THEN Returned ELSE Panicked(LocateScopeMsg(sid))

\* A lookup that tolerates a dangling entity id: it runs the closure on a
\* default state.
any_effect_tolerant(sid, eid) ==
    IF ~contains_key(scopes, sid) THEN Panicked(LocateScopeMsg(sid)) ELSE Returned

any_effect(sid, eid) ==
    IF ~contains_key(scopes, sid) THEN Panicked(LocateScopeMsg(sid))
    ELSE IF contains_key(get(scopes, sid).effects, eid) THEN Returned
    ELSE Panicked(LocateEntityMsg(sid, eid))

any_memo(sid, eid) ==
    IF ~contains_key(scopes, sid) THEN Panicked(LocateScopeMsg(sid))
    ELSE IF contains_key(get(scopes, sid).memos, eid) THEN Returned
    ELSE Panicked(LocateEntityMsg(sid, eid))

any_signal(sid, eid) ==
    IF ~contains_key(scopes, sid) THEN Panicked(LocateScopeMsg(sid))
    ELSE IF contains_key(get(scopes, sid).signals, eid) THEN Returned
    ELSE Panicked(LocateEntityMsg(sid, eid))

\* An unchecked cast: it succeeds whatever the stored type.
downcast_unchecked(state, T) == state.type \in Types

\* downcast_ref::<MemoState<T>>() / <SignalState<T>>(): Some exactly when the
\* stored state has value type T.
downcast_ref(state, T) == state.type = T

memo(sid, eid, T) ==
    IF any_memo(sid, eid).outcome = "panic" THEN any_memo(sid, eid)
    ELSE IF downcast_ref(get(get(scopes, sid).memos, eid), T) THEN Returned
    ELSE Panicked(ConvertMsg(sid, eid, "MemoState", T))

signal(sid, eid, T) ==
    IF any_signal(sid, eid).outcome = "panic" THEN any_signal(sid, eid)
    ELSE IF downcast_ref(get(get(scopes, sid).signals, eid), T) THEN Returned
    ELSE Panicked(ConvertMsg(sid, eid, "SignalState", T))

running_effect == IF stack = <<>> THEN NoSubscriber ELSE stack[Len(stack)]

\* ------------------------------------------------- calls and closures
\* What `last` records of a call: the operation, the handle and type it was
\* given, how it ended and the value it returned.
Call(op, sid, eid, T, res, ret) ==
    [op |-> op, scope |-> sid, entity |-> eid, type |-> T,
     outcome |-> res.outcome, ran |-> res.ran, msg |-> res.msg, ret |-> ret,
     before |-> <<>>]

Running == [outcome |-> "running", ran |-> TRUE, msg |-> NoMsg]

NoCall == Call("-", NoScope, NoEntity, "-", Returned, NoSubscriber)

\* A closure f in progress: the operation that runs it, the Scope passed to
\* f, the receiver (child_scope) or parent (create_scope), untrack's local
\* prev_stack and, as history, the tracking stack and the pending pushes as
\* they were when the operation was called.
Frame(op, passed, self, prev, at_call) ==
    [op |-> op, scope |-> passed, self |-> self, prev |-> prev, at_call |-> at_call,
     pending |-> pending]

Top == calls[Len(calls)]

Pop == SubSeq(calls, 1, Len(calls) - 1)

\* ScopeDisposer(Box<dyn FnOnce()>): the closure it holds either disposes
\* the scope it captured or does nothing.
ScopeDisposer(origin, sid, closure) == [origin |-> origin, scope |-> sid, closure |-> closure]

Init ==
    /\ scopes = EmptySlotMap
    /\ stack = <<>>
    /\ calls = <<>>
    /\ panicking = FALSE
    /\ disposers = {}
    /\ last = NoCall
    /\ pending = <<>>
    /\ other = EmptySlotMap

\* The Scope handles a caller can hold: every id the arena has returned.
Handles == issued(scopes)

Removals == Cardinality(issued(scopes)) - Cardinality(keys(scopes))

\* The entries of the three arenas of the scopes ks (an entry is never removed
\* from an arena, so every slot holds one).
RECURSIVE CountEntities(_)
CountEntities(ks) ==
    IF ks = {} THEN 0
    ELSE LET k == CHOOSE x \in ks : TRUE
         IN Len(get(scopes, k).signals.slots) + Len(get(scopes, k).memos.slots)
                + Len(get(scopes, k).effects.slots) + CountEntities(ks \ {k})

TotalEntities == CountEntities(keys(scopes))

\* The arena has not grown to n slots, or has a free slot.
Room(n) == next_key(scopes).idx <= n

\* The scopes a push is tried on: every handle, the live ones while fewer
\* than n entities exist.
Pushable(n) == {h \in Handles : contains_key(scopes, h) => TotalEntities < n}

\* Entity ids a caller can name; those of slots no arena has are dangling.
EntityIds == {[idx |-> i, ver |-> 1] : i \in 1..(MaxEnt + 1)}

\* --------------------------------------------------- Runtime::create_scope
\* runtime.rs 115: the arena after the insert of the new ScopeState.
\* A create_scope that runs f before the scope is in the arena.
create_scope_f_first(parent) == scopes

create_scope_insert(parent) == insert(scopes, ScopeState_new(parent))

CreateScopeCall(parent) ==
    /\ ~panicking
    /\ Len(calls) < MaxDepth
    /\ next_key(scopes).idx <= MaxScopes
    /\ scopes' = create_scope_insert(parent)
    /\ calls' = Append(calls, Frame("create_scope", next_key(scopes), parent, <<>>, stack))
    /\ last' = Call("create_scope", next_key(scopes), NoEntity, "-", Running, parent)
    /\ UNCHANGED <<stack, pending, panicking, disposers, other>>

\* runtime.rs 119: the disposer create_scope returns for the new scope.
create_scope_disposer(id) == ScopeDisposer("create_scope", id, "dispose")

\* The caller keeps the disposer returned, or drops it.
Keep(keep, d) ==
    IF keep
    THEN Cardinality(disposers) < MaxDisposers /\ disposers' = disposers \cup {d}
    ELSE disposers' = disposers

CreateScopeReturn(keep) ==
    /\ ~panicking
    /\ calls # <<>>
    /\ Top.op = "create_scope"
    /\ calls' = Pop
    /\ Keep(keep, create_scope_disposer(Top.scope))
    /\ last' = Call("create_scope", Top.scope, NoEntity, "-", Returned, Top.self)
    /\ UNCHANGED <<scopes, stack, pending, panicking, other>>

\* ------------------------------------------------------ Scope::child_scope
\* scope.rs 28: the Scope that child_scope passes to f.
child_scope_arg(self) == self

\* scope.rs 29: the closure of the disposer child_scope returns.
child_scope_closure == "noop"

\* create_scope with a closure that does nothing, its disposer dropped.
CreateScope(parent) ==
    /\ ~panicking
    /\ scopes' = create_scope_insert(parent)
    /\ last' = Call("create_scope", next_key(scopes), NoEntity, "-", Returned, parent)
    /\ UNCHANGED <<stack, pending, calls, panicking, disposers, other>>

ChildScopeCall(self) ==
    /\ ~panicking
    /\ Len(calls) < MaxDepth
    /\ self \in Handles
    /\ calls' = Append(calls, Frame("child_scope", child_scope_arg(self), self, <<>>, stack))
    /\ last' = Call("child_scope", child_scope_arg(self), NoEntity, "-", Running, self)
    /\ UNCHANGED <<scopes, stack, pending, panicking, disposers, other>>

ChildScopeReturn(keep) ==
    /\ ~panicking
    /\ calls # <<>>
    /\ Top.op = "child_scope"
    /\ calls' = Pop
    /\ Keep(keep, ScopeDisposer("child_scope", Top.scope, child_scope_closure))
    /\ last' = Call("child_scope", Top.scope, NoEntity, "-", Returned, Top.self)
    /\ UNCHANGED <<scopes, stack, pending, panicking, other>>

\* --------------------------------------------------- Runtime::remove_scope
\* scopes.borrow_mut().remove(id): borrow_mut panics while a Ref of the arena
\* is alive, which it is for the whole of a closure run by Runtime::scope.
remove_scope(sm, sid, borrowed) ==
    IF borrowed
    THEN [res |-> [outcome |-> "panic", ran |-> TRUE, msg |-> BorrowMutMsg], scopes |-> sm]
    ELSE [res |-> Returned, scopes |-> remove(sm, sid)]

RemoveScope(sid) ==
    /\ ~panicking
    /\ sid \in Handles
    /\ contains_key(scopes, sid) => Removals < MaxRemoves
    /\ scopes' = remove_scope(scopes, sid, FALSE).scopes
    /\ last' = Call("remove_scope", sid, NoEntity, "-", remove_scope(scopes, sid, FALSE).res, NoSubscriber)
    /\ UNCHANGED <<stack, pending, calls, panicking, disposers, other>>

\* ---------------------------------------------------------- Scope::dispose
\* scope.rs 69-71: the loop over the scope's children, run inside the closure
\* of Runtime::scope; it stops at the first remove_scope that panics.
RECURSIVE dispose_children(_, _)
dispose_children(children, sm) ==
    IF children = <<>> THEN [res |-> Returned, scopes |-> sm]
    ELSE IF remove_scope(sm, Head(children), TRUE).res.outcome = "panic"
         THEN remove_scope(sm, Head(children), TRUE)
         ELSE dispose_children(Tail(children), remove_scope(sm, Head(children), TRUE).scopes)

\* A dispose that empties the whole arena.
dispose_everything(self) ==
    IF scope(self).outcome = "panic" THEN [res |-> scope(self), scopes |-> scopes]
    ELSE [res |-> Returned, scopes |-> EmptySlotMap]

\* scope.rs 66-75: how dispose ends and the arena it leaves.
dispose(self) ==
    IF scope(self).outcome = "panic" THEN [res |-> scope(self), scopes |-> scopes]
    ELSE dispose_children(get(scopes, self).children, scopes)

ScopeDispose(self) ==
    /\ ~panicking
    /\ self \in Handles
    /\ scopes' = dispose(self).scopes
    /\ panicking' = (dispose(self).res.outcome = "panic")
    /\ last' = Call("dispose", self, NoEntity, "-", dispose(self).res, NoSubscriber)
    /\ UNCHANGED <<stack, pending, calls, disposers, other>>

\* scope.rs 80-82: ScopeDisposer::dispose runs the closure, once.
DisposerDispose(d) ==
    /\ ~panicking
    /\ d \in disposers
    /\ disposers' = disposers \ {d}
    /\ IF d.closure = "dispose"
       THEN /\ scopes' = dispose(d.scope).scopes
            /\ panicking' = (dispose(d.scope).res.outcome = "panic")
            /\ last' = Call("disposer", d.scope, NoEntity, d.origin, dispose(d.scope).res, NoSubscriber)
       ELSE /\ last' = Call("disposer", d.scope, NoEntity, d.origin, Returned, NoSubscriber)
            /\ UNCHANGED <<scopes, panicking>>
    /\ UNCHANGED <<stack, pending, calls, other>>

\* ------------------------------------- Scope::push_signal / _memo / _effect
\* The scope's state with all three arenas replaced by the one pushed to.
with_every_arena(sc, kind, sm) ==
    [sc EXCEPT !.signals = sm, !.memos = sm, !.effects = sm]

\* The scope's state with its arena of a kind replaced.
with_arena(sc, kind, sm) ==
    CASE kind = "signal" -> [sc EXCEPT !.signals = sm]
      [] kind = "memo" -> [sc EXCEPT !.memos = sm]
      [] kind = "effect" -> [sc EXCEPT !.effects = sm]

\* scope.rs 39-64: the result, the id returned and the arena after pushing a
\* state of value type T into the arena of `kind` of scope `self`.
push(kind, self, T) ==
    IF scope(self).outcome = "panic"
    THEN [res |-> scope(self), id |-> NoEntity, scopes |-> scopes]
    ELSE [res |-> Returned,
          id |-> next_key(arena(get(scopes, self), kind)),
          scopes |-> [scopes EXCEPT !.slots[self.idx].value =
                        with_arena(@, kind, insert(arena(@, kind), EntityState(T)))]]

Push(kind, self, T) ==
    /\ ~panicking
    /\ self \in Handles
    /\ scopes' = push(kind, self, T).scopes
    /\ panicking' = (push(kind, self, T).res.outcome = "panic")
    /\ last' = Call("push_" \o kind, self, push(kind, self, T).id, T, push(kind, self, T).res, NoSubscriber)
    /\ UNCHANGED <<stack, pending, calls, disposers, other>>

PushSignal(self, T) == Push("signal", self, T)

PushMemo(self, T) == Push("memo", self, T)

PushEffect(self, T) == Push("effect", self, T)

\* ---------------------------------------------------------------- lookups
\* A lookup changes nothing; `last` records how it ended.
Lookup(op, sid, eid, T, res) ==
    /\ ~panicking
    /\ sid \in Handles
    /\ panicking' = (res.outcome = "panic")
    /\ last' = Call(op, sid, eid, T, res, NoSubscriber)
    /\ UNCHANGED <<scopes, stack, pending, calls, disposers, other>>

LookupScope(sid) == Lookup("scope", sid, NoEntity, "-", scope(sid))

LookupAnyEffect(sid, eid) == Lookup("any_effect", sid, eid, "-", any_effect(sid, eid))

LookupAnyMemo(sid, eid) == Lookup("any_memo", sid, eid, "-", any_memo(sid, eid))

LookupAnySignal(sid, eid) == Lookup("any_signal", sid, eid, "-", any_signal(sid, eid))

LookupMemo(sid, eid, T) == Lookup("memo", sid, eid, T, memo(sid, eid, T))

LookupSignal(sid, eid, T) == Lookup("signal", sid, eid, T, signal(sid, eid, T))

\* ------------------------------------------------- registered child scopes
\* The specification's create_scope(parent): "if parent given, registers the
\* new scope as a child of parent". No code under src/ writes to
\* ScopeState.children (scope.rs 97); the registration is taken from the
\* specification, so that Scope::dispose's loop over the children has
\* something to run on.
register_child(sm, parent, child) ==
    [sm EXCEPT !.slots[parent.idx].value.children = Append(@, child)]

CreateRegisteredScope(parent) ==
    /\ ~panicking
    /\ contains_key(scopes, parent)
    /\ next_key(scopes).idx <= MaxScopes
    /\ scopes' = register_child(create_scope_insert(parent), parent, next_key(scopes))
    /\ last' = Call("create_scope", next_key(scopes), NoEntity, "-", Returned, parent)
    /\ UNCHANGED <<stack, pending, calls, panicking, disposers, other>>

\* ------------------------------------------------------- a second Runtime
\* scope.rs 13-17: every root create_scope leaks a Runtime of its own, whose
\* arena starts empty; its keys are (index, version) pairs like any other.
ForeignHandles == issued(other)

\* A scope created in the second Runtime.
OtherCreateScope ==
    /\ ~panicking
    /\ next_key(other).idx <= MaxSlots
    /\ other' = insert(other, ScopeState_new(NoScope))
    /\ last' = Call("other.create_scope", next_key(other), NoEntity, "-", Returned, NoScope)
    /\ UNCHANGED <<scopes, stack, pending, calls, panicking, disposers>>

\* A lookup in this Runtime of a scope id that the second Runtime issued.
LookupForeign(op, sid, eid, T, res) ==
    /\ ~panicking
    /\ sid \in ForeignHandles
    /\ panicking' = (res.outcome = "panic")
    /\ last' = Call(op, sid, eid, T, res, NoSubscriber)
    /\ UNCHANGED <<scopes, stack, pending, calls, disposers, other>>

LookupForeignScope(sid) == LookupForeign("scope", sid, NoEntity, "-", scope(sid))

LookupForeignAnySignal(sid, eid) ==
    LookupForeign("any_signal", sid, eid, "-", any_signal(sid, eid))

LookupForeignSignal(sid, eid, T) ==
    LookupForeign("signal", sid, eid, T, signal(sid, eid, T))

\* ----------------------------------------------------------------- panics
\* The body of a closure in progress panics.
FPanic ==
    /\ ~panicking
    /\ calls # <<>>
    /\ panicking' = TRUE
    /\ last' = Call("f", Top.scope, NoEntity, "-", Panicked(NoMsg), NoSubscriber)
    /\ UNCHANGED <<scopes, stack, pending, calls, disposers, other>>

\* The panic leaves the innermost closure's operation: nothing that the
\* operation does after f runs (no Drop guard is held across f).
Unwind ==
    /\ panicking
    /\ calls # <<>>
    /\ calls' = Pop
    /\ last' = [Call(Top.op, Top.scope, NoEntity, "-", Panicked(last.msg), NoSubscriber)
                    EXCEPT !.before = Top.at_call]
    /\ UNCHANGED <<scopes, stack, pending, panicking, disposers, other>>

\* A caller catches the panic (catch_unwind) and goes on using the runtime.
Catch ==
    /\ panicking
    /\ panicking' = FALSE
    /\ UNCHANGED <<scopes, stack, pending, calls, disposers, last, other>>

\* ------------------------------------------------------ the tracking stack
\* The subscribers a tracked computation may push.
Subscribers ==
    {Subscriber("effect", [idx |-> 1, ver |-> 1], [idx |-> 1, ver |-> 1]),
     Subscriber("effect", [idx |-> 2, ver |-> 1], [idx |-> 1, ver |-> 1])}

\* runtime.rs 122-124: Vec::push.
push_stack(s) == Append(stack, s)

\* A pop that takes the oldest subscriber instead of the newest.
pop_stack_front == IF stack = <<>> THEN <<>> ELSE Tail(stack)

\* runtime.rs 126-128: Vec::pop, which leaves an empty Vec empty.
pop_stack == IF stack = <<>> THEN <<>> ELSE SubSeq(stack, 1, Len(stack) - 1)

PushStack(s) ==
    /\ ~panicking
    /\ Len(stack) < MaxStack
    /\ stack' = push_stack(s)
    /\ pending' = Append(pending, [sub |-> s, before |-> stack])
    /\ last' = Call("push_stack", s.scope, s.entity, s.kind, Returned, NoSubscriber)
    /\ UNCHANGED <<scopes, calls, panicking, disposers, other>>

PopStack ==
    /\ ~panicking
    /\ stack' = pop_stack
    /\ pending' = IF pending = <<>> THEN <<>> ELSE SubSeq(pending, 1, Len(pending) - 1)
    /\ last' = [Call("pop_stack", NoScope, NoEntity, "-", Returned, NoSubscriber)
                    EXCEPT !.before = IF pending = <<>> THEN <<>> ELSE pending[Len(pending)].before]
    /\ UNCHANGED <<scopes, calls, panicking, disposers, other>>

RunningEffect ==
    /\ ~panicking
    /\ last' = Call("running_effect", NoScope, NoEntity, "-", Returned, running_effect)
    /\ UNCHANGED <<scopes, stack, pending, calls, panicking, disposers, other>>

\* -------------------------------------------------------- Runtime::untrack
\* runtime.rs 136: the stack f starts with; the old one is kept in prev_stack.
untrack_enter == <<>>

\* An untrack that forgets to put prev_stack back.
untrack_no_restore(prev_stack) == stack

\* runtime.rs 138: the stack after f has returned.
untrack_restore(prev_stack) == prev_stack

UntrackCall ==
    /\ ~panicking
    /\ Len(calls) < MaxDepth
    /\ calls' = Append(calls, Frame("untrack", NoScope, NoScope, stack, stack))
    /\ stack' = untrack_enter
    /\ pending' = <<>>
    /\ last' = Call("untrack", NoScope, NoEntity, "-", Running, NoSubscriber)
    /\ UNCHANGED <<scopes, panicking, disposers, other>>

UntrackReturn ==
    /\ ~panicking
    /\ calls # <<>>
    /\ Top.op = "untrack"
    /\ calls' = Pop
    /\ stack' = untrack_restore(Top.prev)
    /\ pending' = Top.pending
    /\ last' = [Call("untrack", NoScope, NoEntity, "-", Returned, NoSubscriber)
                    EXCEPT !.before = Top.at_call]
    /\ UNCHANGED <<scopes, panicking, disposers, other>>

\* ---------------------------------------------------------- specifications
\* The Scope API: scopes are created, given entities and disposed of through
\* Scope and ScopeDisposer.
Next ==
    \/ \E parent \in {NoScope} \cup Handles : CreateScopeCall(parent)
    \/ \E keep \in BOOLEAN : CreateScopeReturn(keep)
    \/ \E self \in Handles : ChildScopeCall(self)
    \/ \E keep \in BOOLEAN : ChildScopeReturn(keep)
    \/ \E self \in Handles : ScopeDispose(self)
    \/ \E d \in disposers : DisposerDispose(d)
    \/ \E self \in Pushable(MaxEnt), T \in Types : PushSignal(self, T)
    \/ \E self \in Pushable(MaxEnt), T \in Types : PushMemo(self, T)
    \/ \E self \in Pushable(MaxEnt), T \in Types : PushEffect(self, T)

Spec == Init /\ [][Next]_vars

\* The Runtime's arena and its lookups, called directly: root scopes are
\* inserted and removed, entities pushed, and handles of every age looked up.
NextRuntime ==
    \/ Room(MaxSlots) /\ CreateScope(NoScope)
    \/ \E sid \in Handles : RemoveScope(sid)
    \/ \E self \in Pushable(MaxEnt), T \in Types : PushSignal(self, T)
    \/ \E self \in Pushable(MaxEnt), T \in Types : PushMemo(self, T)
    \/ \E self \in Pushable(MaxEnt), T \in Types : PushEffect(self, T)
    \/ \E sid \in Handles : LookupScope(sid)
    \/ \E sid \in Handles, eid \in EntityIds : LookupAnyEffect(sid, eid)
    \/ \E sid \in Handles, eid \in EntityIds : LookupAnyMemo(sid, eid)
    \/ \E sid \in Handles, eid \in EntityIds : LookupAnySignal(sid, eid)
    \/ \E sid \in Handles, eid \in EntityIds, T \in Types : LookupMemo(sid, eid, T)
    \/ \E sid \in Handles, eid \in EntityIds, T \in Types : LookupSignal(sid, eid, T)
    \/ Catch

SpecRuntime == Init /\ [][NextRuntime]_vars

\* Runtime::create_scope alone: scopes created and looked up at the root and
\* inside f, an entity pushed while f runs, the disposers kept and invoked.
NextCreate ==
    \/ \E parent \in {NoScope} \cup Handles : CreateScopeCall(parent)
    \/ \E keep \in BOOLEAN : CreateScopeReturn(keep)
    \/ \E self \in Pushable(MaxEnt), T \in Types : PushSignal(self, T)
    \/ \E sid \in Handles : LookupScope(sid)
    \/ \E d \in disposers : DisposerDispose(d)

SpecCreate == Init /\ [][NextCreate]_vars

\* Scope::dispose on scopes whose children are registered.
NextChildren ==
    \/ Room(MaxSlots) /\ CreateScope(NoScope)
    \/ \E parent \in Handles : CreateRegisteredScope(parent)
    \/ \E sid \in Handles : RemoveScope(sid)
    \/ \E self \in Pushable(MaxEnt), T \in Types : PushSignal(self, T)
    \/ \E self \in Pushable(MaxEnt), T \in Types : PushMemo(self, T)
    \/ \E self \in Pushable(MaxEnt), T \in Types : PushEffect(self, T)
    \/ \E sid \in Handles : LookupScope(sid)
    \/ \E self \in Handles : ScopeDispose(self)
    \/ Catch

SpecChildren == Init /\ [][NextChildren]_vars

\* Scope::dispose while an effect runs: root and nested scopes, signals in
\* them, subscribers on the tracking stack, and disposals.
NextDispose ==
    \/ \E parent \in {NoScope} \cup Handles : Room(MaxScopes) /\ CreateScope(parent)
    \/ \E self \in Pushable(MaxEnt), T \in Types : PushSignal(self, T)
    \/ \E s \in Subscribers : PushStack(s)
    \/ \E self \in Handles : ScopeDispose(self)

SpecDispose == Init /\ [][NextDispose]_vars

\* The entity arenas: scopes created and removed, and entities of every kind
\* pushed into the live ones.
NextArena ==
    \/ Room(MaxScopes) /\ CreateScope(NoScope)
    \/ \E sid \in Handles : RemoveScope(sid)
    \/ \E self \in Pushable(MaxPush) \cap keys(scopes), T \in Types : PushSignal(self, T)
    \/ \E self \in Pushable(MaxPush) \cap keys(scopes), T \in Types : PushMemo(self, T)
    \/ \E self \in Pushable(MaxPush) \cap keys(scopes), T \in Types : PushEffect(self, T)

SpecArena == Init /\ [][NextArena]_vars

\* Two Runtimes: scopes and signals of this one, scopes of the other, and
\* lookups in this one of the ids the other issued.
NextForeign ==
    \/ Room(MaxSlots) /\ CreateScope(NoScope)
    \/ OtherCreateScope
    \/ \E sid \in Handles : RemoveScope(sid)
    \/ \E self \in Pushable(MaxEnt), T \in Types : PushSignal(self, T)
    \/ \E sid \in ForeignHandles : LookupForeignScope(sid)
    \/ \E sid \in ForeignHandles, eid \in EntityIds : LookupForeignAnySignal(sid, eid)
    \/ \E sid \in ForeignHandles, eid \in EntityIds, T \in Types : LookupForeignSignal(sid, eid, T)
    \/ Catch

SpecForeign == Init /\ [][NextForeign]_vars

\* The tracking stack and untrack.
NextStack ==
    \/ \E s \in Subscribers : PushStack(s)
    \/ PopStack
    \/ RunningEffect
    \/ UntrackCall
    \/ UntrackReturn
    \/ FPanic
    \/ Unwind
    \/ Catch

SpecStack == Init /\ [][NextStack]_vars

\* ------------------------------------------------------------------ claims
\* The scopes below P in the ownership tree: those whose parent chain, as
\* recorded when they were created, leads to P.
RECURSIVE is_descendant(_, _)
is_descendant(c, p) ==
    /\ contains_key(scopes, c)
    /\ get(scopes, c).parent # NoScope
    /\ \/ get(scopes, c).parent = p
       \/ is_descendant(get(scopes, c).parent, p)

\* The last call was a dispose of last.scope that returned: Scope::dispose,
\* or the ScopeDisposer that create_scope returned for that scope.
Disposed ==
    /\ last.outcome = "ok"
    /\ \/ last.op = "dispose"
       \/ last.op = "disposer" /\ last.type = "create_scope"

\* C1: after Scope::dispose (or the scope's ScopeDisposer) returns for a live
\* scope P, P's own entry is no longer in the scope arena, so every later
\* lookup of P fails fatally.
C1_DisposeRemovesScope ==
    Disposed => ~contains_key(scopes, last.scope) /\ scope(last.scope).outcome = "panic"

\* C2: disposal is transitively complete: after dispose of P returns, every
\* descendant of P (children, grandchildren and deeper) is absent from the
\* scope arena.
C2_DisposeRemovesDescendants ==
    Disposed => \A c \in keys(scopes) : ~is_descendant(c, last.scope)

\* C3: child_scope(f) on a live scope P passes f a genuinely new scope: its id
\* differs from P's, it is an entry of the arena and its parent is P.
C3_ChildScopeIsNew ==
    (calls # <<>> /\ Top.op = "child_scope" /\ contains_key(scopes, Top.self)) =>
        /\ Top.scope # Top.self
        /\ contains_key(scopes, Top.scope)
        /\ get(scopes, Top.scope).parent = Top.self

\* C4: invoking the disposer returned by child_scope(f) makes the scope that
\* was passed to f fail fatally on later access.
C4_ChildDisposerDisposesChild ==
    (last.op = "disposer" /\ last.type = "child_scope" /\ last.outcome = "ok") =>
        scope(last.scope).outcome = "panic"

\* C5: create_scope with parent = Some(P) registers the new scope as a child
\* of P: a live scope C has the live scope P as its parent exactly when C's id
\* is in P's children list.
C5_ParentIffChild ==
    \A c \in keys(scopes), p \in keys(scopes) :
        (get(scopes, c).parent = p) <=>
            (\E i \in 1..Len(get(scopes, p).children) : get(scopes, p).children[i] = c)

\* The last call was a lookup by handle, and what the handle resolves to.
AnyLookups == {"any_effect", "any_memo", "any_signal", "memo", "signal"}

LastKind ==
    CASE last.op \in {"any_effect"} -> "effect"
      [] last.op \in {"any_memo", "memo"} -> "memo"
      [] last.op \in {"any_signal", "signal"} -> "signal"

ScopeResolves == contains_key(scopes, last.scope)

EntityResolves ==
    /\ ScopeResolves
    /\ contains_key(arena(get(scopes, last.scope), LastKind), last.entity)

StoredType == get(arena(get(scopes, last.scope), LastKind), last.entity).type

Fatal == last.outcome = "panic" /\ ~last.ran

\* C6: an access through a handle that does not resolve is fatal and never
\* runs the caller's closure: Runtime::scope with a scope id absent from the
\* arena, and any_signal / any_memo / any_effect (and the typed signal / memo
\* built on them) with an absent scope or an entity id absent from the live
\* scope's arena.
C6_DanglingHandleIsFatal ==
    /\ (last.op = "scope" /\ ~ScopeResolves) => Fatal /\ last.msg = LocateScopeMsg(last.scope)
    /\ (last.op \in AnyLookups /\ ~ScopeResolves) => Fatal
    /\ (last.op \in AnyLookups /\ ScopeResolves /\ ~EntityResolves) =>
            Fatal /\ last.msg = LocateEntityMsg(last.scope, last.entity)

\* any_signal was given a live scope and an entity id its arena does not
\* hold, after a lookup of a stale scope id is possible too.
C6_Witness ==
    /\ last.op = "any_signal"
    /\ ScopeResolves
    /\ ~EntityResolves
    /\ last.outcome = "panic"
    /\ Cardinality(Handles) > Cardinality(keys(scopes))

\* The last call was signal<T> / memo<T> on a live handle whose stored state
\* has a value type other than T.
TypeMismatch ==
    /\ last.op \in {"signal", "memo"}
    /\ EntityResolves
    /\ StoredType # last.type

\* The value types a panic message names.
MsgTypes(m) == {m.type} \ {"-"}

\* C7 as stated: a typed access with the wrong T aborts fatally without
\* running the closure, with a diagnostic that names the handle and the
\* expected versus the actual type.
C7_MismatchNamesBothTypes ==
    TypeMismatch =>
        /\ Fatal
        /\ last.msg.scope = last.scope /\ last.msg.entity = last.entity
        /\ last.type \in MsgTypes(last.msg)
        /\ StoredType \in MsgTypes(last.msg)

\* C7 as amended: a typed access with the wrong T aborts fatally without
\* running the closure, with a diagnostic ("couldn't convert {id} to
\* SignalState<T>" / MemoState<T>) that names the handle and the expected
\* type T, and no other type.
C7_MismatchIsFatal ==
    TypeMismatch =>
        /\ Fatal
        /\ last.msg.text = "couldn't convert"
        /\ last.msg.scope = last.scope /\ last.msg.entity = last.entity
        /\ last.msg.state = (IF last.op = "signal" THEN "SignalState" ELSE "MemoState")
        /\ MsgTypes(last.msg) = {last.type}

C7_Witness == TypeMismatch /\ last.op = "signal" /\ last.outcome = "panic"

\* C8: untrack(f) suppresses tracking for the whole of f and restores
\* afterwards: whatever the ambient stack, running_effect() is None when f
\* starts, and when f returns normally the stack is exactly the stack that
\* existed before the call, whatever f pushed, popped or untracked.
C8_UntrackSuppressesAndRestores ==
    /\ (last.op = "untrack" /\ last.outcome = "running") =>
            running_effect = NoSubscriber /\ stack = <<>>
    /\ (last.op = "untrack" /\ last.outcome = "ok") => stack = last.before

\* An untrack called with a subscriber on the stack, from inside the f of
\* another untrack, has returned.
C8_Witness ==
    /\ last.op = "untrack"
    /\ last.outcome = "ok"
    /\ last.before # <<>>
    /\ calls # <<>>
    /\ Top.op = "untrack"

\* C9: untrack(f) restores the prior stack on every exit path: when f panics
\* too, the stack after the call equals the stack before the call.
C9_UntrackRestoresOnPanic ==
    (last.op = "untrack" /\ last.outcome = "panic") => stack = last.before

\* C10: the tracking stack is strictly LIFO: running_effect() is the most
\* recently pushed subscriber not yet popped, it is None exactly when the
\* stack is empty, and a pop that matches a push leaves the stack as it was
\* before that push.
C10_StackIsLifo ==
    /\ running_effect = (IF pending = <<>> THEN NoSubscriber ELSE pending[Len(pending)].sub)
    /\ (running_effect = NoSubscriber) <=> (stack = <<>>)
    /\ last.op = "pop_stack" => stack = last.before

\* A pop has uncovered an earlier push, which is now the running effect.
C10_Witness ==
    /\ last.op = "pop_stack"
    /\ stack # <<>>
    /\ running_effect = pending[Len(pending)].sub

\* C11: scope handles are generation-checked: once a scope has been removed
\* from the arena its handle never resolves again, whatever create_scope and
\* remove_scope calls follow; in particular not to a scope created afterwards
\* in the same slot.
C11_StaleHandleNeverResolves ==
    [][\A k \in Handles : ~contains_key(scopes, k) => ~contains_key(scopes', k)]_vars

\* A removed scope's slot is in use again under a new key, and the old handle
\* does not resolve.
C11_Witness ==
    \E k \in Handles :
        /\ ~contains_key(scopes, k)
        /\ scope(k).outcome = "panic"
        /\ \E l \in keys(scopes) : l.idx = k.idx /\ l.ver > k.ver

\* C12: a handle issued by one Runtime is meaningless in another: looking up,
\* in this Runtime, a scope id (or a scope id, entity id pair) that a different
\* Runtime issued fails fatally, and never resolves to one of this Runtime's
\* own scopes or entities.
C12_ForeignHandleIsFatal ==
    (last.op \in {"scope", "any_signal", "signal"} /\ last.scope \in ForeignHandles) => Fatal

\* C13: Runtime::create_scope runs f once, after the new scope has been
\* inserted and before the disposer is returned: while f runs the new scope is
\* live (an entity can be created in it, a lookup of it does not panic) and no
\* disposer for it exists yet; the id it gets is none a live or removed scope
\* has; and the scope stays live while its disposer has not been invoked.
C13_LiveDuringF ==
    /\ \A i \in 1..Len(calls) :
        calls[i].op = "create_scope" =>
            /\ scope(calls[i].scope) = Returned
            /\ \A kind \in Kinds, T \in Types : push(kind, calls[i].scope, T).res = Returned
            /\ \A d \in disposers : d.origin = "create_scope" => d.scope # calls[i].scope
            /\ \A j \in 1..Len(calls) :
                (j # i /\ calls[j].op = "create_scope") => calls[j].scope # calls[i].scope
    /\ \A d \in disposers : d.origin = "create_scope" => contains_key(scopes, d.scope)

C13_FreshId ==
    (last'.op = "create_scope" /\ last'.outcome = "running" /\ calls' # calls)
        => /\ last'.scope \notin Handles
           /\ contains_key(scopes', last'.scope)
           /\ keys(scopes') = keys(scopes) \cup {last'.scope}

C13_CreateScopeRunsFInLiveScope == []C13_LiveDuringF /\ [][C13_FreshId]_vars

\* f of a nested create_scope is running inside f of an outer one, with an
\* entity created in the new scope.
C13_Witness ==
    /\ Len(calls) >= 2
    /\ calls[1].op = "create_scope"
    /\ Top.op = "create_scope"
    /\ Top.self = calls[1].scope
    /\ keys(get(scopes, Top.scope).signals) # {}

Outside(P) == {k \in keys(scopes) : k # P /\ ~is_descendant(k, P)}

\* C15: disposal is confined to the disposed subtree: a dispose of a live
\* scope P leaves every scope that is neither P nor a descendant of P in the
\* arena, with its state and entities as they were, and leaves the tracking
\* stack and the closures in progress unchanged.
C15_DisposeIsConfined ==
    [][(last'.op \in {"dispose", "disposer"} /\ contains_key(scopes, last'.scope))
        => /\ \A k \in Outside(last'.scope) :
                /\ contains_key(scopes', k)
                /\ get(scopes', k) = get(scopes, k)
           /\ stack' = stack
           /\ calls' = calls
           /\ ~panicking']_vars

\* A dispose returned while a subscriber was on the tracking stack, and a
\* scope outside the disposed subtree holds a signal.
C15_Witness ==
    /\ Disposed
    /\ stack # <<>>
    /\ \E k \in Outside(last.scope) : keys(get(scopes, k).signals) # {}

\* The kind of entity a push operation creates.
PushKind(op) ==
    CASE op = "push_signal" -> "signal"
      [] op = "push_memo" -> "memo"
      [] op = "push_effect" -> "effect"

\* Access to an entity of a kind through its handles, with value type T
\* (effects are stored type-erased and have no typed accessor).
Access(kind, sid, eid, T) ==
    CASE kind = "signal" -> signal(sid, eid, T)
      [] kind = "memo" -> memo(sid, eid, T)
      [] kind = "effect" -> any_effect(sid, eid)

\* Every entity of every live scope is accessible under its own type.
C16_Accessible ==
    \A sid \in keys(scopes), kind \in Kinds :
        \A eid \in keys(arena(get(scopes, sid), kind)) :
            Access(kind, sid, eid, get(arena(get(scopes, sid), kind), eid).type) = Returned

\* A push that returned put one new entry, of the pushed type and under a
\* handle no live entity of that arena has, into the arena of its kind of its
\* scope, and changed nothing else.
C16_PushStep ==
    (last'.op \in {"push_signal", "push_memo", "push_effect"} /\ last'.outcome = "ok"
        /\ scopes' # scopes)
        => /\ contains_key(scopes, last'.scope)
           /\ keys(scopes') = keys(scopes)
           /\ \A k \in keys(scopes) \ {last'.scope} : get(scopes', k) = get(scopes, k)
           /\ \A kind \in Kinds \ {PushKind(last'.op)} :
                arena(get(scopes', last'.scope), kind) = arena(get(scopes, last'.scope), kind)
           /\ last'.entity \notin keys(arena(get(scopes, last'.scope), PushKind(last'.op)))
           /\ keys(arena(get(scopes', last'.scope), PushKind(last'.op)))
                = keys(arena(get(scopes, last'.scope), PushKind(last'.op))) \cup {last'.entity}
           /\ get(arena(get(scopes', last'.scope), PushKind(last'.op)), last'.entity)
                = EntityState(last'.type)

\* While its scope remains in the arena, an entity stays under its handle
\* with the state it has.
C16_EntityStays ==
    \A sid \in keys(scopes) \cap keys(scopes'), kind \in Kinds :
        \A eid \in keys(arena(get(scopes, sid), kind)) :
            /\ contains_key(arena(get(scopes', sid), kind), eid)
            /\ get(arena(get(scopes', sid), kind), eid) = get(arena(get(scopes, sid), kind), eid)

\* C16: push_signal, push_memo and push_effect in a live scope insert into
\* that scope's own arena only and return a handle distinct from every other
\* live handle of that kind in the scope; from then on access through (scope
\* id, returned id) with the matching type succeeds and finds the inserted
\* state for as long as the scope remains in the arena; other scopes' arenas
\* are unchanged.
C16_PushIsLocalAndLasting ==
    []C16_Accessible /\ [][C16_PushStep /\ C16_EntityStays]_vars

\* A push returned the second handle of its arena while another scope is
\* live, and the typed lookup of the new handle succeeds.
C16_Witness ==
    /\ last.op \in {"push_signal", "push_memo"}
    /\ last.outcome = "ok"
    /\ contains_key(scopes, last.scope)
    /\ Cardinality(keys(arena(get(scopes, last.scope), PushKind(last.op)))) >= 2
    /\ Access(PushKind(last.op), last.scope, last.entity, last.type) = Returned
    /\ \E k \in keys(scopes) : k # last.scope

====
